---- MODULE Spec2Model ----
(***************************************************************************)
(* Model of the namespace/type source reorganizer of mcp-dotnetdc:         *)
(*   splitByNamespace       (decompiler.js)                                *)
(*   header extraction      (decompiler.js, decompileAndSplit)             *)
(*   _splitTypes            (index.js, DecompilerService)                  *)
(* A text is a sequence of one-character strings; offsets are 0-based as   *)
(* in the JavaScript source, so text[k] of the source is s[k + 1] here.    *)
(***************************************************************************)
EXTENDS Integers, Sequences, FiniteSets, TLC

\* the splitters and the header extraction
VARIABLES text, pc, lastIndex, tokens, i, cursor, result, regions, last,
          headerBlock, usingLines

\* the concurrency limiter (utils.js): its closure and the calls made to it
VARIABLES max, active, queue, call

textVars == <<text, pc, lastIndex, tokens, i, cursor, result, regions, last,
              headerBlock, usingLines>>

\* one tool call on its way through decompileAndSplit, decompileDotnetAssembly
\* or decompileDotnetAssemblyToDir
VARIABLES tool, stage, tempDir, files, nread, total, outcome

\* the calls of maybeCached (cache.js) and the clock
VARIABLES now, computedAt, ncalls, computes

\* resolveIlspycmd (ilspy.js): process.env.ILSPY_CMD, the machine, and one call
VARIABLES ilspyEnv, world, rstage, tried, rvalue, installed

\* the emitters of the service (index.js): the files written, the value returned
VARIABLES method, want, disk, written, merged, units

limVars == <<max, active, queue, call>>

emitVars == <<method, want, disk, written, merged, units>>

ilspyVars == <<ilspyEnv, world, rstage, tried, rvalue, installed>>

cacheVars == <<now, computedAt, ncalls, computes>>

callVars == <<tool, stage, tempDir, files, nread, total, outcome>>

\* everything but the splitters' state
envVars == <<limVars, callVars, cacheVars, ilspyVars, emitVars>>

\* everything but the limiter's state, everything but the tool call's state
exceptLim == <<textVars, callVars, cacheVars, ilspyVars, emitVars>>

exceptCall == <<textVars, limVars, cacheVars, ilspyVars, emitVars>>

exceptCache == <<textVars, limVars, callVars, ilspyVars, emitVars>>

exceptIlspy == <<textVars, limVars, callVars, cacheVars, emitVars>>

vars == <<textVars, envVars>>

\* the limiter before any call, with no call to be made
LimIdle == max = 1 /\ active = 0 /\ queue = <<>> /\ call = <<>>

\* no tool call under way
CallIdle ==
  /\ tool = "none"
  /\ stage = "idle"
  /\ tempDir = "none"
  /\ files = <<>>
  /\ nread = 0
  /\ total = 0
  /\ outcome = "none"

\* maybeCached never called
CacheIdle == now = 0 /\ computedAt = <<>> /\ ncalls = <<>> /\ computes = 0

\* resolveIlspycmd not called
IlspyIdle ==
  /\ ilspyEnv = "unset"
  /\ world = <<>>
  /\ rstage = "idle"
  /\ tried = <<>>
  /\ rvalue = "none"
  /\ installed = FALSE

\* nothing emitted
EmitIdle ==
  /\ method = "none"
  /\ want = {}
  /\ disk = <<>>
  /\ written = <<>>
  /\ merged = <<>>
  /\ units = <<>>

EnvIdle == LimIdle /\ CallIdle /\ CacheIdle /\ IlspyIdle /\ EmitIdle

(***************************************************************************)
(* Characters and the JavaScript string primitives the code uses.          *)
(***************************************************************************)
Lower == {"a", "b", "c", "d", "e", "f", "g", "h", "i", "j", "k", "l", "m",
          "n", "o", "p", "q", "r", "s", "t", "u", "v", "w", "x", "y", "z"}

Upper == {"A", "B", "C", "D", "E", "F", "G", "H", "I", "J", "K", "L", "M",
          "N", "O", "P", "Q", "R", "S", "T", "U", "V", "W", "X", "Y", "Z"}

Digit == {"0", "1", "2", "3", "4", "5", "6", "7", "8", "9"}

\* \s of the regular expressions, and the characters String.prototype.trim strips
SpaceChars == {" ", "\t", "\n", "\r"}

IsSpace(c) == c \in SpaceChars

\* \w of the regular expressions (decides \b)
IsWord(c) == c \in Lower \cup Upper \cup Digit \cup {"_"}

\* [A-Za-z_]
IsIdentStart(c) == c \in Lower \cup Upper \cup {"_"}

\* [A-Za-z0-9_\.] of nsRegex
NsIdentChars == Lower \cup Upper \cup Digit \cup {"_", "."}

\* [A-Za-z0-9_] of typeRegex
IdentChars == Lower \cup Upper \cup Digit \cup {"_"}

Min(a, b) == IF a < b THEN a ELSE b

\* s.slice(a, b) for 0 <= a, 0 <= b
Slice(s, a, b) == SubSeq(s, a + 1, Min(b, Len(s)))

\* s.slice(a)
SliceFrom(s, a) == SubSeq(s, a + 1, Len(s))

\* s.indexOf(ch, from): the least offset k >= from with s[k] = ch, or -1
RECURSIVE IndexOf(_, _, _)
IndexOf(s, ch, from) ==
  IF from >= Len(s) THEN -1
  ELSE IF s[from + 1] = ch THEN from ELSE IndexOf(s, ch, from + 1)

\* whether s has the characters of w at offset p
HasAt(s, w, p) ==
  /\ p + Len(w) <= Len(s)
  /\ \A k \in 1 .. Len(w) : s[p + k] = w[k]

\* the offset just past the longest run of characters of the class from p
RECURSIVE RunEnd(_, _, _)
RunEnd(s, p, class) ==
  IF p < Len(s) /\ s[p + 1] \in class THEN RunEnd(s, p + 1, class) ELSE p

\* the offset where the longest run of characters of the class ending at p starts
RECURSIVE RunStart(_, _, _)
RunStart(s, p, class) ==
  IF p > 0 /\ s[p] \in class THEN RunStart(s, p - 1, class) ELSE p

\* s.trim()
Trim(s) == SubSeq(s, RunEnd(s, 0, SpaceChars) + 1, RunStart(s, Len(s), SpaceChars))

NL == <<"\n">>

(***************************************************************************)
(* The insertion-ordered Map of the source: a sequence of key/value pairs. *)
(***************************************************************************)
MapHas(m, k) == \E n \in 1 .. Len(m) : m[n].key = k

MapGet(m, k) == LET n == CHOOSE n \in 1 .. Len(m) : m[n].key = k IN m[n].val

\* Map.prototype.set: an existing key keeps its place, a new key goes last
MapSet(m, k, v) ==
  IF MapHas(m, k)
  THEN [n \in 1 .. Len(m) |-> IF m[n].key = k THEN [key |-> k, val |-> v] ELSE m[n]]
  ELSE Append(m, [key |-> k, val |-> v])

MapKeys(m) == {m[n].key : n \in 1 .. Len(m)}

GLOBAL == <<"(", "g", "l", "o", "b", "a", "l", ")">>

\* nsRegex, global flag: \b namespace \s+ ( [A-Za-z_] [A-Za-z0-9_\.]* ) \s* ( ; | \{ )
KwNamespace == <<"n", "a", "m", "e", "s", "p", "a", "c", "e">>

\* \b just before offset p, where s[p] is a word character
WordStartAt(s, p) == p = 0 \/ ~IsWord(s[p])

\* the offsets of a match of nsRegex that starts at p; every quantifier of the
\* pattern is followed by a character outside its class, so the greedy match is
\* the only one
NsNameStart(s, p) == RunEnd(s, p + Len(KwNamespace), SpaceChars)

NsNameEnd(s, p) == RunEnd(s, NsNameStart(s, p), NsIdentChars)

NsTermAt(s, p) == RunEnd(s, NsNameEnd(s, p), SpaceChars)

NsMatchesAt(s, p) ==
  /\ WordStartAt(s, p)
  /\ HasAt(s, KwNamespace, p)
  /\ LET n == NsNameStart(s, p)
         t == NsTermAt(s, p)
     IN /\ n > p + Len(KwNamespace)
        /\ n < Len(s)
        /\ IsIdentStart(s[n + 1])
        /\ t < Len(s)
        /\ s[t + 1] \in {";", "{"}

\* the token pushed for the match at p, with the lastIndex the match leaves
NsToken(s, p) ==
  LET t == NsTermAt(s, p)
  IN [index |-> p,
      name  |-> Slice(s, NsNameStart(s, p), NsNameEnd(s, p)),
      kind  |-> IF s[t + 1] = ";" THEN "file" ELSE "block",
      end   |-> t + 1]

\* the leftmost offset at or after from where nsRegex matches, -1 if none
RECURSIVE NsScan(_, _)
NsScan(s, from) ==
  IF from >= Len(s) THEN -1
  ELSE IF NsMatchesAt(s, from) THEN from ELSE NsScan(s, from + 1)

\* the regular expression without its global flag: every exec starts at 0
NsExecNoGlobal(s, from) == NsScan(s, 0)

\* nsRegex.exec(text) with nsRegex.lastIndex = from: the leftmost match at or
\* after from, or -1 for null
NsExec(s, from) == NsScan(s, from)

(***************************************************************************)
(* The brace counter shared by splitByNamespace and _splitTypes:           *)
(*   while (j < text.length) { const ch = text[j++]; ... }                 *)
(* Its value is j when the loop ends.                                      *)
(***************************************************************************)
RECURSIVE BraceScan(_, _, _)
BraceScan(s, j, depth) ==
  IF j >= Len(s) THEN j
  ELSE LET ch == s[j + 1]
       IN IF ch = "{" THEN BraceScan(s, j + 1, depth + 1)
          ELSE IF ch = "}"
               THEN IF depth - 1 = 0 THEN j + 1 ELSE BraceScan(s, j + 1, depth - 1)
               ELSE BraceScan(s, j + 1, depth)

AppendChunkOverwrite(m, ns, chunk) ==
  IF chunk = <<>> THEN m ELSE MapSet(m, ns, Trim(chunk) \o NL)

\* const append = (ns, chunk) => { if (!chunk) return; ... }
AppendChunk(m, ns, chunk) ==
  IF chunk = <<>> THEN m
  ELSE LET prev == IF MapHas(m, ns) THEN MapGet(m, ns) ELSE <<>>
       IN MapSet(m, ns, prev \o Trim(chunk) \o NL)

(***************************************************************************)
(* Input texts: every concatenation of at most MaxPieces pieces.           *)
(***************************************************************************)
MaxPieces == 4

RECURSIVE Concats(_, _)
Concats(P, n) ==
  IF n = 0 THEN {<<>>}
  ELSE LET shorter == Concats(P, n - 1)
       IN shorter \cup {a \o b : a \in shorter, b \in P}

NsPieces ==
  { KwNamespace \o <<" ", "A", " ", "{">>,
    KwNamespace \o <<" ", "B", "{">>,
    KwNamespace \o <<" ", "A", ";">>,
    KwNamespace \o <<" ", "A", ".", "B", ";">>,
    <<"}">>,
    <<" ", "x", " ", "}">>,
    <<"{">>,
    <<"y">>,
    <<"\n">> }

NsTexts == Concats(NsPieces, MaxPieces)

NoLast ==
  [kind |-> "none", name |-> <<>>, index |-> 0, start |-> 0, braceStart |-> 0,
   nextIdx |-> 0, chunk |-> <<>>]

(***************************************************************************)
(* splitByNamespace(text)                                                  *)
(***************************************************************************)
Init ==
  /\ text \in NsTexts
  /\ pc = "tokenize"
  /\ lastIndex = 0
  /\ tokens = <<>>
  /\ i = 0
  /\ cursor = 0
  /\ result = <<>>
  /\ regions = <<>>
  /\ last = NoLast
  /\ headerBlock = <<>>
  /\ usingLines = <<>>
  /\ EnvIdle

\* if (tokens.length === 0) { result.set('(global)', text); return result; }
NoTokenResultTrimmed(m, s) == MapSet(m, GLOBAL, Trim(s))

NoTokenResult(m, s) == MapSet(m, GLOBAL, s)

\* while ((match = nsRegex.exec(text)) !== null) tokens.push(...)
TokenizeMatch ==
  /\ pc = "tokenize"
  /\ LET p == NsExec(text, lastIndex)
         t == NsToken(text, p)
     IN /\ p # -1
        /\ tokens' = Append(tokens, [index |-> t.index, name |-> t.name, kind |-> t.kind])
        /\ lastIndex' = t.end
  /\ UNCHANGED <<text, pc, i, cursor, result, regions, last, headerBlock, usingLines>>
  /\ UNCHANGED envVars

\* exec returns null (and resets lastIndex to 0) with no token pushed:
\* result.set('(global)', text); return result
TokenizeNone ==
  /\ pc = "tokenize"
  /\ NsExec(text, lastIndex) = -1
  /\ tokens = <<>>
  /\ lastIndex' = 0
  /\ result' = NoTokenResult(result, text)
  /\ pc' = "done"
  /\ UNCHANGED <<text, tokens, i, cursor, regions, last, headerBlock, usingLines>>
  /\ UNCHANGED envVars

\* exec returns null (and resets lastIndex to 0) with tokens pushed
TokenizeEnd ==
  /\ pc = "tokenize"
  /\ NsExec(text, lastIndex) = -1
  /\ tokens # <<>>
  /\ lastIndex' = 0
  /\ pc' = "loop"
  /\ UNCHANGED <<text, tokens, i, cursor, result, regions, last, headerBlock, usingLines>>
  /\ UNCHANGED envVars

\* if (i === 0 && t.index > cursor) append('(global)', text.slice(cursor, t.index))
HasPrefix(t) == i = 0 /\ t.index > cursor

PrefixResult(t) ==
  IF HasPrefix(t) THEN AppendChunk(result, GLOBAL, Slice(text, cursor, t.index)) ELSE result

PrefixRegions(t) ==
  IF HasPrefix(t)
  THEN Append(regions, [ns |-> GLOBAL, chunk |-> Slice(text, cursor, t.index)])
  ELSE regions

\* const start = nsRegex.lastIndex
FileStart == lastIndex

\* one iteration of the token loop, t.kind === 'file'
LoopFile ==
  /\ pc = "loop"
  /\ i < Len(tokens)
  /\ tokens[i + 1].kind = "file"
  /\ LET t == tokens[i + 1]
         start == FileStart
         nextIdx == IF i + 1 < Len(tokens) THEN tokens[i + 2].index ELSE Len(text)
         chunk == Slice(text, start, nextIdx)
     IN /\ result' = AppendChunk(PrefixResult(t), t.name, chunk)
        /\ regions' = Append(PrefixRegions(t), [ns |-> t.name, chunk |-> chunk])
        /\ cursor' = nextIdx
        /\ last' = [kind |-> "file", name |-> t.name, index |-> t.index, start |-> start,
                    braceStart |-> -1, nextIdx |-> nextIdx, chunk |-> chunk]
  /\ i' = i + 1
  /\ UNCHANGED <<text, pc, lastIndex, tokens, headerBlock, usingLines>>
  /\ UNCHANGED envVars

BlockBodyWithBraces(s, braceStart, nextIdx) == Slice(s, braceStart, nextIdx)

\* text.slice(braceStart + 1, nextIdx - 1)
BlockBody(s, braceStart, nextIdx) == Slice(s, braceStart + 1, nextIdx - 1)

\* one iteration of the token loop, t.kind === 'block'
\* (if (braceStart === -1) continue: the iteration changes nothing)
LoopBlock ==
  /\ pc = "loop"
  /\ i < Len(tokens)
  /\ tokens[i + 1].kind = "block"
  /\ LET t == tokens[i + 1]
         braceStart == IndexOf(text, "{", t.index)
         nextIdx == BraceScan(text, braceStart, 0)
         chunk == BlockBody(text, braceStart, nextIdx)
     IN IF braceStart = -1
        THEN /\ result' = PrefixResult(t)
             /\ regions' = PrefixRegions(t)
             /\ UNCHANGED <<cursor, last>>
        ELSE /\ result' = AppendChunk(PrefixResult(t), t.name, chunk)
             /\ regions' = Append(PrefixRegions(t), [ns |-> t.name, chunk |-> chunk])
             /\ cursor' = nextIdx
             /\ last' = [kind |-> "block", name |-> t.name, index |-> t.index,
                         start |-> braceStart + 1, braceStart |-> braceStart,
                         nextIdx |-> nextIdx, chunk |-> chunk]
  /\ i' = i + 1
  /\ UNCHANGED <<text, pc, lastIndex, tokens, headerBlock, usingLines>>
  /\ UNCHANGED envVars

\* if (cursor < text.length) append('(global)', text.slice(cursor)); return result
TailAppend ==
  /\ pc = "loop"
  /\ i = Len(tokens)
  /\ IF cursor < Len(text)
     THEN /\ result' = AppendChunk(result, GLOBAL, SliceFrom(text, cursor))
          /\ regions' = Append(regions, [ns |-> GLOBAL, chunk |-> SliceFrom(text, cursor)])
     ELSE UNCHANGED <<result, regions>>
  /\ pc' = "done"
  /\ UNCHANGED <<text, lastIndex, tokens, i, cursor, last, headerBlock, usingLines>>
  /\ UNCHANGED envVars

Next == TokenizeMatch \/ TokenizeNone \/ TokenizeEnd \/ LoopFile \/ LoopBlock \/ TailAppend

Spec == Init /\ [][Next]_vars

(***************************************************************************)
(* Vocabulary of the properties of splitByNamespace.                       *)
(***************************************************************************)
\* opening minus closing braces among the offsets b .. k
Balance(s, b, k) ==
  Cardinality({h \in b .. k : s[h + 1] = "{"}) - Cardinality({h \in b .. k : s[h + 1] = "}"})

\* the offset of the brace that closes the one at offset b, or -1 when none does
RECURSIVE FirstBalanced(_, _, _)
FirstBalanced(s, b, k) ==
  IF k >= Len(s) THEN -1
  ELSE IF Balance(s, b, k) = 0 THEN k ELSE FirstBalanced(s, b, k + 1)

CloseOf(s, b) == FirstBalanced(s, b, b)

\* offsets of the n-th declaration: just past its ';' or '{', and of its '{'
TokEnd(n) == NsToken(text, tokens[n].index).end

TokBrace(n) == TokEnd(n) - 1

\* the offset of the declaration after the n-th, or end of text
TokNext(n) == IF n < Len(tokens) THEN tokens[n + 1].index ELSE Len(text)

AllOfKind(k) == \A n \in 1 .. Len(tokens) : tokens[n].kind = k

DistinctNames ==
  \A m, n \in 1 .. Len(tokens) : tokens[m].name = tokens[n].name => m = n

Finished == pc = "done" /\ tokens # <<>>

\* s occurs in t
Occurs(s, t) == \E p \in 0 .. (Len(t) - Len(s)) : HasAt(t, s, p)

\* C1: in a text whose declarations are all file-scoped (names distinct), each
\* name is mapped to the text between its own semicolon and the next
\* declaration (or end of text), trimmed, so it never holds its own declaration.
C1_FileScopedBody ==
  (Finished /\ AllOfKind("file") /\ DistinctNames) =>
    \A n \in 1 .. Len(tokens) :
      LET body == Trim(Slice(text, TokEnd(n), TokNext(n)))
      IN /\ body # <<>> =>
              MapHas(result, tokens[n].name) /\ MapGet(result, tokens[n].name) = body \o NL
         /\ MapHas(result, tokens[n].name) =>
              ~Occurs(KwNamespace, MapGet(result, tokens[n].name))

\* the text is two block declarations with distinct names, the second inside
\* the brace extent of the first
NestedPair ==
  /\ Len(tokens) = 2
  /\ AllOfKind("block")
  /\ DistinctNames
  /\ tokens[2].index < BraceScan(text, TokBrace(1), 0)

\* C2: a block namespace nested in another is attributed to the outer name
\* only: the outer body holds the inner declaration and the inner name gets no
\* entry of its own.
C2_NestedFoldsIntoOuter ==
  (Finished /\ NestedPair) =>
    /\ MapHas(result, tokens[1].name)
    /\ Occurs(Slice(text, tokens[2].index, TokEnd(2)), MapGet(result, tokens[1].name))
    /\ ~MapHas(result, tokens[2].name)

\* C3: when the opening brace of a block namespace is never closed, the body
\* appended for it is the text from just after that brace through the last
\* character of the input, trimmed.
C3_UnmatchedRunsToEnd ==
  (last.kind = "block" /\ CloseOf(text, last.braceStart) = -1) =>
    Trim(last.chunk) = Trim(SliceFrom(text, last.braceStart + 1))

\* C4 as claimed: with no declaration recognised the result is the single
\* entry (global) holding the trimmed input.
C4_GlobalTrimmed ==
  (pc = "done" /\ tokens = <<>>) => result = <<[key |-> GLOBAL, val |-> Trim(text)]>>

\* C4 amended: with no declaration recognised the result is the single entry
\* (global) holding the input unchanged, surrounding whitespace included.
C4_GlobalVerbatim ==
  (pc = "done" /\ tokens = <<>>) => result = <<[key |-> GLOBAL, val |-> text]>>

C4_Witness ==
  pc = "done" /\ tokens = <<>> /\ Trim(text) # text /\ Trim(text) # <<>>

\* the concatenation of trim(chunk) + newline over the regions rs
RECURSIVE JoinRegions(_)
JoinRegions(rs) ==
  IF rs = <<>> THEN <<>> ELSE Trim(Head(rs).chunk) \o NL \o JoinRegions(Tail(rs))

\* the regions attributed to ns, in encounter order: all of them, and those of
\* at least one character
RegionsOf(ns) == SelectSeq(regions, LAMBDA r : r.ns = ns)

NonEmptyRegionsOf(ns) == SelectSeq(regions, LAMBDA r : r.ns = ns /\ r.chunk # <<>>)

RegionNames == {regions[n].ns : n \in 1 .. Len(regions)}

NonEmptyRegionNames == {ns \in RegionNames : NonEmptyRegionsOf(ns) # <<>>}

\* C5 as claimed: every region attributed to a name adds trim(region) and a
\* newline to the entry of that name, in encounter order.
C5_AppendEveryRegion ==
  Finished =>
    /\ MapKeys(result) = RegionNames
    /\ \A ns \in RegionNames : MapGet(result, ns) = JoinRegions(RegionsOf(ns))

\* C5 amended: every region of at least one character adds trim(region) and
\* a newline to the entry of its name, in encounter order, and nothing is
\* overwritten; a region of zero characters adds nothing, not even the newline
\* (a name with only such regions has no entry).
C5_AppendNonEmptyRegions ==
  Finished =>
    /\ MapKeys(result) = NonEmptyRegionNames
    /\ \A ns \in NonEmptyRegionNames : MapGet(result, ns) = JoinRegions(NonEmptyRegionsOf(ns))

C5_Witness ==
  /\ Finished
  /\ \E m, n \in 1 .. Len(regions) :
       /\ m < n
       /\ regions[m].ns = regions[n].ns
       /\ regions[m].ns # GLOBAL
       /\ Trim(regions[m].chunk) # <<>>
       /\ Trim(regions[n].chunk) # <<>>
       /\ Len(MapGet(result, regions[m].ns)) > Len(Trim(regions[n].chunk)) + 1

\* the text between the braces of the n-th declaration, when the brace is closed
Inner(n) == Slice(text, TokBrace(n) + 1, CloseOf(text, TokBrace(n)))

\* the text is a sequence of sibling, brace-balanced block declarations with
\* distinct names: it starts with the first declaration, ends with the last
\* closing brace, and only whitespace separates one block from the next
SiblingBlocks ==
  /\ tokens # <<>>
  /\ pc # "tokenize"
  /\ AllOfKind("block")
  /\ DistinctNames
  /\ tokens[1].index = 0
  /\ \A n \in 1 .. Len(tokens) :
       /\ CloseOf(text, TokBrace(n)) # -1
       /\ TokNext(n) > CloseOf(text, TokBrace(n))
       /\ Trim(Slice(text, CloseOf(text, TokBrace(n)) + 1, TokNext(n))) = <<>>
  /\ CloseOf(text, TokBrace(Len(tokens))) = Len(text) - 1

\* after a block is processed the cursor is just past its closing brace
CursorPastClose ==
  last.kind = "block" => cursor = CloseOf(text, last.braceStart) + 1

\* C6 as claimed (a body being trim(text between the braces) plus the newline
\* that append adds): every sibling block gets an entry holding exactly the
\* text between its own braces, there are no other entries, and the cursor is
\* just past the closing brace after each block.
C6_SiblingBodies ==
  SiblingBlocks =>
    /\ CursorPastClose
    /\ pc = "done" =>
         /\ MapKeys(result) = {tokens[n].name : n \in 1 .. Len(tokens)}
         /\ \A n \in 1 .. Len(tokens) :
              MapGet(result, tokens[n].name) = Trim(Inner(n)) \o NL

\* C6 amended: every sibling block with at least one character between its
\* braces gets an entry holding exactly trim(text between its own braces) and
\* a newline; a block with nothing between its braces gets no entry; there are
\* no other entries; the cursor is just past the closing brace after each block.
C6_SiblingNonEmptyBodies ==
  SiblingBlocks =>
    /\ CursorPastClose
    /\ pc = "done" =>
         /\ MapKeys(result) = {tokens[n].name : n \in {k \in 1 .. Len(tokens) : Inner(k) # <<>>}}
         /\ \A n \in 1 .. Len(tokens) :
              Inner(n) # <<>> => MapGet(result, tokens[n].name) = Trim(Inner(n)) \o NL

C6_Witness ==
  /\ SiblingBlocks
  /\ pc = "done"
  /\ Len(tokens) = 2
  /\ \A n \in 1 .. 2 : Trim(Inner(n)) # <<>>
  /\ Len(result) = 2

(***************************************************************************)
(* DecompilerService._splitTypes(code).  The code is held in text, the     *)
(* lastIndex of typeRegex in lastIndex, the Map in result.                 *)
(***************************************************************************)
Modifiers ==
  { <<"p", "u", "b", "l", "i", "c">>,
    <<"i", "n", "t", "e", "r", "n", "a", "l">>,
    <<"p", "r", "o", "t", "e", "c", "t", "e", "d">>,
    <<"p", "r", "i", "v", "a", "t", "e">>,
    <<"s", "e", "a", "l", "e", "d">>,
    <<"a", "b", "s", "t", "r", "a", "c", "t">>,
    <<"s", "t", "a", "t", "i", "c">>,
    <<"p", "a", "r", "t", "i", "a", "l">>,
    <<"r", "e", "a", "d", "o", "n", "l", "y">>,
    <<"r", "e", "f">>,
    <<"u", "n", "s", "a", "f", "e">>,
    <<"n", "e", "w">> }

Kinds ==
  { <<"c", "l", "a", "s", "s">>,
    <<"s", "t", "r", "u", "c", "t">>,
    <<"i", "n", "t", "e", "r", "f", "a", "c", "e">>,
    <<"e", "n", "u", "m">>,
    <<"r", "e", "c", "o", "r", "d">> }

WordsAt(s, p, words) == {w \in words : HasAt(s, w, p)}

\* the offset where \s* (?: modifier | \s )* \s* stops when it takes all it can
\* from p.  No modifier is a prefix of another, and no kind keyword starts
\* with a modifier or a blank, so a kind keyword can follow only there.
RECURSIVE ModRunEnd(_, _)
ModRunEnd(s, p) ==
  IF p < Len(s) /\ IsSpace(s[p + 1]) THEN ModRunEnd(s, p + 1)
  ELSE IF WordsAt(s, p, Modifiers) # {}
       THEN ModRunEnd(s, p + Len(CHOOSE w \in WordsAt(s, p, Modifiers) : TRUE))
       ELSE p

\* (^|\n) at p without the m flag: the length of match[1], or -1
LineStartLen(s, p) ==
  IF p = 0 THEN 0 ELSE IF p < Len(s) /\ s[p + 1] = "\n" THEN 1 ELSE -1

NoTypeMatch == [ok |-> FALSE]

\* the match of typeRegex that starts at p: the length of match[1], match[3]
\* and the end of the match past the optional (?: \s* < [^>]+ > )
TypeMatchAt(s, p) ==
  LET lead  == LineStartLen(s, p)
      kw    == ModRunEnd(s, p + lead)
      kinds == WordsAt(s, kw, Kinds)
      kwEnd == kw + Len(CHOOSE w \in kinds : TRUE)
      name  == RunEnd(s, kwEnd, SpaceChars)
      e     == RunEnd(s, name, IdentChars)
      lt    == RunEnd(s, e, SpaceChars)
      gt    == IndexOf(s, ">", lt + 1)
  IN IF /\ lead # -1
        /\ kinds # {}
        /\ name > kwEnd
        /\ name < Len(s)
        /\ IsIdentStart(s[name + 1])
     THEN [ok |-> TRUE, index |-> p, lead |-> lead, name |-> Slice(s, name, e),
           end |-> IF lt < Len(s) /\ s[lt + 1] = "<" /\ gt >= lt + 2 THEN gt + 1 ELSE e]
     ELSE NoTypeMatch

\* typeRegex.exec(code) with typeRegex.lastIndex = from: the leftmost match at
\* or after from, or NoTypeMatch for null
RECURSIVE TypeExec(_, _)
TypeExec(s, from) ==
  IF from >= Len(s) THEN NoTypeMatch
  ELSE IF TypeMatchAt(s, from).ok THEN TypeMatchAt(s, from) ELSE TypeExec(s, from + 1)

\* const start = match.index + (match[1] ? match[1].length : 0)
TypeStart(m) == m.index + m.lead

\* const semi = code.indexOf(';', start); const nextIdx = semi === -1 ? code.length : semi + 1
SemiNextIdx(s, start) ==
  IF IndexOf(s, ";", start) = -1 THEN Len(s) ELSE IndexOf(s, ";", start) + 1

\* typeRegex.lastIndex = nextIdx
TypeResumeAtMatchEnd(m, nextIdx) == m.end

TypeResume(m, nextIdx) == nextIdx

MaxTypePieces == 4

TypePieces ==
  { <<"\n", "p", "u", "b", "l", "i", "c", " ", "c", "l", "a", "s", "s", " ", "A">>,
    <<"\n", " ", "r", "e", "c", "o", "r", "d", " ", "B">>,
    <<"c", "l", "a", "s", "s", " ", "A">>,
    <<"<", "{", "}", ">">>,
    <<"<", ";", ">">>,
    <<"{">>,
    <<"}">>,
    <<";">>,
    <<"{", " ", "x", " ", "}">> }

TypeTexts == Concats(TypePieces, MaxTypePieces)

TInit ==
  /\ text \in TypeTexts
  /\ pc = "types"
  /\ lastIndex = 0
  /\ tokens = <<>>
  /\ i = 0
  /\ cursor = 0
  /\ result = <<>>
  /\ regions = <<>>
  /\ last = NoLast
  /\ headerBlock = <<>>
  /\ usingLines = <<>>
  /\ EnvIdle

\* one iteration of the while loop, braceStart === -1
TypeSemi ==
  /\ pc = "types"
  /\ LET m == TypeExec(text, lastIndex)
         start == TypeStart(m)
         nextIdx == SemiNextIdx(text, start)
         chunk == Trim(Slice(text, start, nextIdx))
     IN /\ m.ok
        /\ IndexOf(text, "{", start) = -1
        /\ result' = MapSet(result, m.name, chunk)
        /\ lastIndex' = TypeResume(m, nextIdx)
        /\ regions' = Append(regions, [ns |-> m.name, chunk |-> chunk,
                                       start |-> start, nextIdx |-> nextIdx])
        /\ last' = [kind |-> "semi", name |-> m.name, index |-> m.index, start |-> start,
                    braceStart |-> -1, nextIdx |-> nextIdx, chunk |-> chunk]
  /\ UNCHANGED <<text, pc, tokens, i, cursor, headerBlock, usingLines>>
  /\ UNCHANGED envVars

\* one iteration of the while loop, braceStart found
TypeBrace ==
  /\ pc = "types"
  /\ LET m == TypeExec(text, lastIndex)
         start == TypeStart(m)
         braceStart == IndexOf(text, "{", start)
         nextIdx == BraceScan(text, braceStart, 0)
         chunk == Trim(Slice(text, start, nextIdx))
     IN /\ m.ok
        /\ braceStart # -1
        /\ result' = MapSet(result, m.name, chunk)
        /\ lastIndex' = TypeResume(m, nextIdx)
        /\ regions' = Append(regions, [ns |-> m.name, chunk |-> chunk,
                                       start |-> start, nextIdx |-> nextIdx])
        /\ last' = [kind |-> "brace", name |-> m.name, index |-> m.index, start |-> start,
                    braceStart |-> braceStart, nextIdx |-> nextIdx, chunk |-> chunk]
  /\ UNCHANGED <<text, pc, tokens, i, cursor, headerBlock, usingLines>>
  /\ UNCHANGED envVars

\* exec returns null (and resets lastIndex to 0): return result
TypeDone ==
  /\ pc = "types"
  /\ ~TypeExec(text, lastIndex).ok
  /\ lastIndex' = 0
  /\ pc' = "typesDone"
  /\ UNCHANGED <<text, tokens, i, cursor, result, regions, last, headerBlock, usingLines>>
  /\ UNCHANGED envVars

TNext == TypeSemi \/ TypeBrace \/ TypeDone

SpecTypes == TInit /\ [][TNext]_vars

(***************************************************************************)
(* Vocabulary of the properties of _splitTypes.                            *)
(***************************************************************************)
\* an iteration of the type loop has just run
Recognised == pc = "types" /\ last.kind # "none"

\* the end of the recognised declaration's header (the end of the match)
DeclEnd == TypeMatchAt(text, last.index).end

\* the header holds neither a brace nor a semicolon
PlainHeader ==
  \A k \in last.start .. (DeclEnd - 1) : text[k + 1] \notin {"{", "}", ";"}

\* the first semicolon and the first opening brace after the header
NextSemi == IndexOf(text, ";", DeclEnd)

NextBrace == IndexOf(text, "{", DeclEnd)

\* C9: a recognised declaration with no opening brace before its next
\* semicolon is cut from the start of its modifier run through that semicolon,
\* and the scan resumes right after the semicolon (so a type declared after it
\* is still seen).
C9_BodylessRecord ==
  (Recognised /\ PlainHeader /\ NextSemi # -1 /\ (NextBrace = -1 \/ NextBrace > NextSemi)) =>
    /\ last.chunk = Trim(Slice(text, last.start, NextSemi + 1))
    /\ lastIndex = NextSemi + 1

\* the offset just past the brace closing the one at b, or end of text
ChunkEnd(b) == LET c == CloseOf(text, b) IN IF c = -1 THEN Len(text) ELSE c + 1

\* the chunk of the last iteration is the declaration through the brace that
\* closes the opening brace at b, it is what the map holds under the type's
\* name, the scan resumes right after it, and consumed chunks do not overlap
ChunkThroughClose(b) ==
  /\ LET e == ChunkEnd(b)
     IN /\ last.nextIdx = e
        /\ last.chunk = Trim(Slice(text, last.start, e))
        /\ lastIndex = e
  /\ MapHas(result, last.name) /\ MapGet(result, last.name) = last.chunk
  /\ \A m, n \in 1 .. Len(regions) : m < n => regions[m].nextIdx <= regions[n].start

\* C10 as claimed, the opening brace of a declaration being the first one
\* after its header (spec 4.5: searching forward from the match end).
C10_BraceAfterHeader ==
  (Recognised /\ NextBrace # -1 /\ (NextSemi = -1 \/ NextSemi > NextBrace)) =>
    ChunkThroughClose(NextBrace)

\* the first semicolon and the first opening brace from the start of the
\* modifier run
FirstSemi == IndexOf(text, ";", last.start)

FirstBrace == IndexOf(text, "{", last.start)

\* C10 amended: the opening brace is the first one at or after the start of
\* the modifier run (it lies inside the generic parameter list when that list
\* holds a brace).
C10_BraceFromStart ==
  (Recognised /\ FirstBrace # -1 /\ (FirstSemi = -1 \/ FirstSemi > FirstBrace)) =>
    ChunkThroughClose(FirstBrace)

\* a closed brace-bodied declaration with a declaration nested in its body,
\* which gets no entry
C10_Witness ==
  /\ Recognised
  /\ PlainHeader
  /\ FirstBrace # -1
  /\ CloseOf(text, FirstBrace) # -1
  /\ Len(result) = 1
  /\ \E p \in (FirstBrace + 1) .. (last.nextIdx - 1) :
       TypeMatchAt(text, p).ok /\ ~MapHas(result, TypeMatchAt(text, p).name)

\* the declarations _splitTypes recognised, in encounter order, have finished
TypesReturned == pc = "typesDone"

\* C11: the text of every declaration that _splitTypes recognised is kept in
\* the mapping under its type name, also when two declarations share a name
\* (append, not overwrite), the parts in encounter order.
C11_EveryDeclarationKept ==
  TypesReturned =>
    \A n \in 1 .. Len(regions) :
      /\ MapHas(result, regions[n].ns)
      /\ Occurs(regions[n].chunk, MapGet(result, regions[n].ns))

(***************************************************************************)
(* decompileAndSplit, header extraction from the combined text:            *)
(*   const firstNsIdx = combined.search(/\bnamespace\b/);                  *)
(*   const headerBlock = firstNsIdx > 0 ? combined.slice(0, firstNsIdx)    *)
(*                                      : '';                              *)
(*   const usingLines = (headerBlock.match(/^using\s+[^;]+;\s*$/gm)        *)
(*                       || []).join('\n');                                *)
(***************************************************************************)
KwUsing == <<"u", "s", "i", "n", "g">>

\* the line terminators that ^ and $ of a multiline regular expression see
LineTerms == {"\n", "\r"}

\* combined.search(/\bnamespace\b/) from offset from: the keyword between two
\* word boundaries, -1 if none
RECURSIVE NamespaceSearch(_, _)
NamespaceSearch(s, from) ==
  IF from >= Len(s) THEN -1
  ELSE IF /\ WordStartAt(s, from)
          /\ HasAt(s, KwNamespace, from)
          /\ (from + Len(KwNamespace) = Len(s) \/ ~IsWord(s[from + Len(KwNamespace) + 1]))
       THEN from
       ELSE NamespaceSearch(s, from + 1)

\* the end of the match of the using pattern that starts at p, -1 if none:
\* p is a line start; \s+ and [^;]+ need a white space right after the keyword
\* and one more character before the first semicolon; the greedy \s* then
\* gives back characters until $ holds (end of input or a line terminator next)
UsingMatchEnd(h, p) ==
  LET q    == p + Len(KwUsing)
      semi == IndexOf(h, ";", q)
      e    == RunEnd(h, semi + 1, SpaceChars)
      ends == {k \in (semi + 1) .. (e - 1) : h[k + 1] \in LineTerms}
  IN IF /\ (p = 0 \/ h[p] \in LineTerms)
        /\ HasAt(h, KwUsing, p)
        /\ q < Len(h)
        /\ IsSpace(h[q + 1])
        /\ semi >= q + 2
     THEN IF e = Len(h) THEN e
          ELSE IF ends = {} THEN -1
          ELSE CHOOSE k \in ends : \A j \in ends : k >= j
     ELSE -1

\* headerBlock.match(...) || []: the matches from offset from on, left to
\* right, each search starting where the previous match ended
RECURSIVE UsingMatches(_, _)
UsingMatches(h, from) ==
  IF from >= Len(h) THEN <<>>
  ELSE LET k == UsingMatchEnd(h, from)
       IN IF k # -1 THEN <<Slice(h, from, k)>> \o UsingMatches(h, k)
          ELSE UsingMatches(h, from + 1)

\* ms.join('\n')
RECURSIVE JoinNL(_)
JoinNL(ms) ==
  IF ms = <<>> THEN <<>>
  ELSE IF Len(ms) = 1 THEN Head(ms)
  ELSE Head(ms) \o NL \o JoinNL(Tail(ms))

MaxHdrPieces == 4

HdrPieces ==
  { <<"u", "s", "i", "n", "g", " ", "S", ";">>,
    <<" ", "u", "s", "i", "n", "g", " ", "T", ";">>,
    <<"u", "s", "i", "n", "g", " ", "U">>,
    <<"\n">>,
    <<" ">>,
    <<";">>,
    <<"n", "a", "m", "e", "s", "p", "a", "c", "e", " ", "X", " ", "{", " ", "}">> }

HdrTexts == Concats(HdrPieces, MaxHdrPieces)

\* combined, before the header is extracted
HInit ==
  /\ text \in HdrTexts
  /\ pc = "header"
  /\ lastIndex = 0
  /\ tokens = <<>>
  /\ i = 0
  /\ cursor = 0
  /\ result = <<>>
  /\ regions = <<>>
  /\ last = NoLast
  /\ headerBlock = <<>>
  /\ usingLines = <<>>
  /\ EnvIdle

\* const firstNsIdx = ...; const headerBlock = ...
HeaderBlock ==
  /\ pc = "header"
  /\ LET firstNsIdx == NamespaceSearch(text, 0)
     IN headerBlock' = IF firstNsIdx > 0 THEN Slice(text, 0, firstNsIdx) ELSE <<>>
  /\ pc' = "using"
  /\ UNCHANGED <<text, lastIndex, tokens, i, cursor, result, regions, last, usingLines>>
  /\ UNCHANGED envVars

\* const usingLines = ...
UsingLines ==
  /\ pc = "using"
  /\ usingLines' = JoinNL(UsingMatches(headerBlock, 0))
  /\ pc' = "headerDone"
  /\ UNCHANGED <<text, lastIndex, tokens, i, cursor, result, regions, last, headerBlock>>
  /\ UNCHANGED envVars

HNext == HeaderBlock \/ UsingLines

SpecHeader == HInit /\ [][HNext]_vars

(***************************************************************************)
(* The header claim.                                                       *)
(***************************************************************************)
\* the offsets where the keyword namespace stands alone
StandaloneNamespace ==
  {p \in 0 .. (Len(text) - Len(KwNamespace)) :
     /\ HasAt(text, KwNamespace, p)
     /\ (p = 0 \/ ~IsWord(text[p]))
     /\ (p + Len(KwNamespace) = Len(text) \/ ~IsWord(text[p + Len(KwNamespace) + 1]))}

\* the text before the first standalone namespace keyword, empty when the
\* keyword is absent or at offset 0
HeaderRegion ==
  IF StandaloneNamespace = {} THEN <<>>
  ELSE SubSeq(text, 1, CHOOSE p \in StandaloneNamespace : \A q \in StandaloneNamespace : p <= q)

\* the lines of h from offset from on
RECURSIVE LinesFrom(_, _)
LinesFrom(h, from) ==
  LET n == IndexOf(h, "\n", from)
  IN IF n = -1 THEN <<SliceFrom(h, from)>>
     ELSE <<Slice(h, from, n)>> \o LinesFrom(h, n + 1)

\* optional leading white space, using, non-semicolon characters, a semicolon,
\* optional trailing white space
IsUsingLine(l) ==
  LET a    == RunEnd(l, 0, SpaceChars)
      semi == IndexOf(l, ";", a)
  IN /\ HasAt(l, KwUsing, a)
     /\ semi > a + Len(KwUsing)
     /\ RunEnd(l, semi + 1, SpaceChars) = Len(l)

UsingLinesOf(h) == SelectSeq(LinesFrom(h, 0), IsUsingLine)

\* C8: the header extraction returns the using-directive lines of the header
\* region (optional leading white space, using, non-semicolon characters, a
\* semicolon, optional trailing white space), in order, joined by single
\* newlines with nothing else added.
C8_UsingLinesOfHeader ==
  pc = "headerDone" => usingLines = JoinNL(UsingLinesOf(HeaderRegion))

(***************************************************************************)
(* Both functions on every input.                                          *)
(***************************************************************************)
SpecTotal == (Init \/ TInit) /\ [][Next \/ TNext]_vars

Returned == pc \in {"done", "typesDone"}

\* every iteration of a scanning loop moves its position forward
Advances ==
  /\ (pc = "tokenize" /\ pc' = "tokenize") => lastIndex' > lastIndex
  /\ (pc = "loop" /\ pc' = "loop") => i' > i
  /\ (pc = "types" /\ pc' = "types") => lastIndex' > lastIndex

\* the positions stay within the input, and every token the loop reads has a
\* kind the loop handles
InRange ==
  /\ lastIndex \in 0 .. Len(text)
  /\ i \in 0 .. Len(tokens)
  /\ cursor \in 0 .. Len(text)
  /\ Len(tokens) <= Len(text)
  /\ \A n \in 1 .. Len(tokens) :
       tokens[n].kind \in {"file", "block"} /\ tokens[n].index \in 0 .. (Len(text) - 1)

EmptyGivesGlobal ==
  (pc = "done" /\ text = <<>>) => result = <<[key |-> GLOBAL, val |-> <<>>]>>

\* C7: splitByNamespace and _splitTypes return on every input: each loop
\* iteration strictly advances a position bounded by the input, no step
\* faults, and the empty string gives the single entry (global) with an empty
\* body.
C7_Total == [][Advances]_vars /\ []InRange /\ []EmptyGivesGlobal

C7_Witness ==
  \/ pc = "typesDone" /\ Len(regions) >= 2 /\ \E k \in 1 .. Len(text) : text[k] = "<"
  \/ pc = "done" /\ text = <<>> /\ Len(result) = 1

(***************************************************************************)
(* withConcurrencyLimitFactory(max) (utils.js):                            *)
(*   let active = 0; const queue = [];                                     *)
(*   return async function withConcurrencyLimit(fn) {                      *)
(*     if (active >= max) await new Promise(r => queue.push(r));           *)
(*     active++;                                                           *)
(*     try { return await fn(); }                                          *)
(*     finally { active--; const next = queue.shift(); if (next) next(); } *)
(*   };                                                                    *)
(* Every await splits the function into steps of the event loop: a call    *)
(* runs to its first await, a woken waiter resumes in a later step, and    *)
(* the finally block runs in a step after fn has settled.                  *)
(***************************************************************************)
NumCalls == 3

MaxLimit == 2

Calls == 1 .. NumCalls

\* the splitters' state while another part of the program is looked at
TextIdle ==
  /\ text = <<>>
  /\ pc = "idle"
  /\ lastIndex = 0
  /\ tokens = <<>>
  /\ i = 0
  /\ cursor = 0
  /\ result = <<>>
  /\ regions = <<>>
  /\ last = NoLast
  /\ headerBlock = <<>>
  /\ usingLines = <<>>

\* one part of the program is looked at, the others rest
LimOnly == TextIdle /\ CallIdle /\ CacheIdle /\ IlspyIdle /\ EmitIdle

CallOnly == TextIdle /\ LimIdle /\ CacheIdle /\ IlspyIdle /\ EmitIdle

CacheOnly == TextIdle /\ LimIdle /\ CallIdle /\ IlspyIdle /\ EmitIdle

IlspyOnly == TextIdle /\ LimIdle /\ CallIdle /\ CacheIdle /\ EmitIdle

\* let active = 0; const queue = []; no call made yet
LInit ==
  /\ LimOnly
  /\ max \in 1 .. MaxLimit
  /\ active = 0
  /\ queue = <<>>
  /\ call = [c \in Calls |-> "idle"]

\* withConcurrencyLimit(fn) up to its first await: either the wait on the
\* promise whose resolver is pushed, or active++ and the call of fn
Enter(c) ==
  /\ call[c] = "idle"
  /\ IF active >= max
     THEN /\ queue' = Append(queue, c)
          /\ call' = [call EXCEPT ![c] = "waiting"]
          /\ UNCHANGED active
     ELSE /\ active' = active + 1
          /\ call' = [call EXCEPT ![c] = "running"]
          /\ UNCHANGED queue
  /\ UNCHANGED <<max, exceptLim>>

\* the continuation of a waiter whose resolver was called: active++ and fn
Resume(c) ==
  /\ call[c] = "woken"
  /\ active' = active + 1
  /\ call' = [call EXCEPT ![c] = "running"]
  /\ UNCHANGED <<max, queue, exceptLim>>

\* a finally block that wakes nobody
WakeNone(q, cs) == cs

\* the wake-up of the finally block: queue.shift() and next()
WakeNext(q, cs) == IF q = <<>> THEN cs ELSE [cs EXCEPT ![Head(q)] = "woken"]

\* fn has settled (resolved or rejected): the finally block
Settle(c) ==
  /\ call[c] = "running"
  /\ \E how \in {"resolved", "rejected"} :
       call' = WakeNext(queue, [call EXCEPT ![c] = how])
  /\ active' = active - 1
  /\ queue' = IF queue = <<>> THEN <<>> ELSE Tail(queue)
  /\ UNCHANGED <<max, exceptLim>>

LNext == \E c \in Calls : Enter(c) \/ Resume(c) \/ Settle(c)

SpecLimiter == LInit /\ [][LNext]_vars

\* C12: the number of fn executions in progress, the active counter, is at
\* most max and never negative, in every reachable state.
C12_ActiveWithinMax == active >= 0 /\ active <= max

(***************************************************************************)
(* One tool call, from the CallTool handler (index.js) into                *)
(*   decompileAndSplit              (decompiler.js)                        *)
(*   decompileDotnetAssembly        (index.js)                             *)
(*   decompileDotnetAssemblyToDir   (index.js)                             *)
(* Every awaited operation of the file system, of resolveIlspycmd and of   *)
(* the decompiler may succeed or fail.  A file of the decompiler's output  *)
(* is its length in UTF-16 units (text.length) and its size in bytes.      *)
(***************************************************************************)
\* export const MAX_FILES, MAX_BYTES (scaled down from 5000 and 50 MiB)
MAX_FILES == 2

MAX_BYTES == 3

MaxOutFiles == 3

MaxFileLen == 2

Tools ==
  { "decompile-dotnet-assembly", "list-dotnet-namespaces",
    "decompile-per-namespace-to-dir", "decompile-dotnet-assembly-to-dir",
    "decompile-to-project-structure", "decompile-selected-namespaces",
    "decompile-selected-namespaces-to-dir" }

\* the function of the service through which the tool obtains the output
Method(t) ==
  IF t = "decompile-dotnet-assembly" THEN "decompileDotnetAssembly"
  ELSE IF t = "decompile-dotnet-assembly-to-dir" THEN "decompileDotnetAssemblyToDir"
  ELSE "decompileAndSplit"

\* a source file: its text.length, and its size in bytes (more than the
\* length when it holds characters outside ASCII)
OutFiles == {[len |-> n, bytes |-> b] : n \in 1 .. MaxFileLen, b \in 1 .. (MaxFileLen + 1)}

SourceFiles == {f \in OutFiles : f.bytes \in {f.len, f.len + 1}}

\* what the decompiler may have written
FileLists == UNION {[1 .. n -> SourceFiles] : n \in 0 .. MaxOutFiles}

CInit ==
  /\ CallOnly
  /\ tool \in Tools
  /\ stage = IF Method(tool) = "decompileDotnetAssembly" THEN "mkdtemp"
             ELSE IF Method(tool) = "decompileAndSplit" THEN "stat" ELSE "access"
  /\ tempDir = "none"
  /\ files = <<>>
  /\ nread = 0
  /\ total = 0
  /\ outcome = "none"

\* an error thrown with the temporary directory not yet made, or by the
\* function that uses none: the call settles with it
ThrowOutside(kind) ==
  /\ outcome' = kind
  /\ stage' = "settled"

\* an error thrown inside try: the finally block runs before the call settles
\* (decompileDotnetAssembly wraps the error in its catch block first)
Throw(kind) ==
  /\ outcome' = kind
  /\ stage' = IF Method(tool) = "decompileDotnetAssemblyToDir" THEN "settled" ELSE "finally"

\* decompileAndSplit: await fs.stat(assemblyPath), before the try block
StatAssembly ==
  /\ stage = "stat"
  /\ \/ stage' = "mkdtemp" /\ UNCHANGED outcome
     \/ ThrowOutside("stat")
  /\ UNCHANGED <<tool, tempDir, files, nread, total, exceptCall>>

\* const tempDir = await fs.mkdtemp(...), before the try block
MakeTemp ==
  /\ stage = "mkdtemp"
  /\ \/ /\ tempDir' = "exists"
        /\ stage' = IF Method(tool) = "decompileAndSplit" THEN "resolve" ELSE "access"
        /\ UNCHANGED outcome
     \/ ThrowOutside("mkdtemp") /\ UNCHANGED tempDir
  /\ UNCHANGED <<tool, files, nread, total, exceptCall>>

\* await fs.access(assemblyPath) (and fs.mkdir(outputDir) of the ToDir form)
AccessAssembly ==
  /\ stage = "access"
  /\ \/ stage' = "resolve" /\ UNCHANGED outcome
     \/ Throw("access")
  /\ UNCHANGED <<tool, tempDir, files, nread, total, exceptCall>>

\* const ilspy = await resolveIlspycmd()
ResolveTool ==
  /\ stage = "resolve"
  /\ \/ stage' = "exec" /\ UNCHANGED outcome
     \/ Throw("resolve")
  /\ UNCHANGED <<tool, tempDir, files, nread, total, exceptCall>>

\* await runExec(cmd), or await execPromise(cmd)
ExecDecompiler ==
  /\ stage = "exec"
  /\ \/ stage' = "collect" /\ UNCHANGED outcome
     \/ Throw("exec")
  /\ UNCHANGED <<tool, tempDir, files, nread, total, exceptCall>>

\* the walk of the output directory, and the checks on the number of files:
\*   decompileAndSplit         if (files.length > MAX_FILES) throw
\*   decompileDotnetAssembly   if (collectedFiles.length === 0) throw
\*   ...ToDir                  return files.sort()
CollectFiles ==
  /\ stage = "collect"
  /\ \/ \E fs \in FileLists :
          /\ files' = fs
          /\ IF Method(tool) = "decompileAndSplit"
             THEN IF Len(fs) > MAX_FILES THEN Throw("tooManyFiles")
                  ELSE stage' = "read" /\ UNCHANGED outcome
             ELSE IF Method(tool) = "decompileDotnetAssembly"
             THEN IF Len(fs) = 0 THEN Throw("noSourceFiles")
                  ELSE stage' = "read" /\ UNCHANGED outcome
             ELSE outcome' = "result" /\ stage' = "settled"
     \/ Throw("readdir") /\ UNCHANGED files
  /\ UNCHANGED <<tool, tempDir, nread, total, exceptCall>>

\* one iteration of the loop that reads the files:
\*   decompileAndSplit         total += text.length;
\*                             if (total > MAX_BYTES) throw
\*   decompileDotnetAssembly   parts.push(...)
ReadFile ==
  /\ stage = "read"
  /\ nread < Len(files)
  /\ \/ /\ nread' = nread + 1
        /\ total' = total + files[nread + 1].len
        /\ IF Method(tool) = "decompileAndSplit" /\ total' > MAX_BYTES
           THEN Throw("tooManyBytes")
           ELSE UNCHANGED <<stage, outcome>>
     \/ Throw("readFile") /\ UNCHANGED <<nread, total>>
  /\ UNCHANGED <<tool, tempDir, files, exceptCall>>

\* all files read: the function returns its value
ReturnOutput ==
  /\ stage = "read"
  /\ nread = Len(files)
  /\ outcome' = "result"
  /\ stage' = "finally"
  /\ UNCHANGED <<tool, tempDir, files, nread, total, exceptCall>>

\* finally { try { await fs.rm(tempDir, { recursive: true, force: true }) }
\*           catch { } }: the removal succeeds or fails, the call settles with
\* what the try block left
Cleanup ==
  /\ stage = "finally"
  /\ tempDir' \in {"removed", "removeFailed"}
  /\ stage' = "settled"
  /\ UNCHANGED <<tool, files, nread, total, outcome, exceptCall>>

CNext ==
  \/ StatAssembly
  \/ MakeTemp
  \/ AccessAssembly
  \/ ResolveTool
  \/ ExecDecompiler
  \/ CollectFiles
  \/ ReadFile
  \/ ReturnOutput
  \/ Cleanup

SpecCall == CInit /\ [][CNext]_vars

(***************************************************************************)
(* The size limits.                                                        *)
(***************************************************************************)
RECURSIVE SumBytes(_)
SumBytes(fs) == IF fs = <<>> THEN 0 ELSE Head(fs).bytes + SumBytes(Tail(fs))

\* the decompiler ran and its output is over a limit, at a limit
OverLimit == Len(files) > MAX_FILES \/ SumBytes(files) > MAX_BYTES

AtLimit == Len(files) = MAX_FILES /\ SumBytes(files) = MAX_BYTES

IsError(o) == o \notin {"none", "result"}

\* C13: a tool call whose decompiler output exceeds MAX_FILES files or
\* MAX_BYTES bytes in total settles with an error, whatever the tool; output
\* exactly at the limits is not rejected for its size.
C13_OverLimitIsError ==
  stage = "settled" =>
    /\ OverLimit => IsError(outcome)
    /\ AtLimit => outcome \notin {"tooManyFiles", "tooManyBytes"}

(***************************************************************************)
(* createInMemoryCache(ttlMs) (cache.js):                                  *)
(*   async function maybeCached(tool, args, compute) { return compute(); } *)
(* as the CallTool handler uses it, with the clock.  computedAt records    *)
(* for every key (tool name and arguments) when compute last ran for it.   *)
(***************************************************************************)
\* export const CACHE_TTL_MS (scaled down from 5000)
CACHE_TTL_MS == 2

NumKeys == 2

MaxTime == 4

MaxCacheCalls == 3

Keys == 1 .. NumKeys

KInit ==
  /\ CacheOnly
  /\ now = 0
  /\ computedAt = [k \in Keys |-> -1]
  /\ ncalls = [k \in Keys |-> 0]
  /\ computes = 0

\* maybeCached(tool, args, compute) with key k: return compute()
MaybeCached(k) ==
  /\ ncalls[k] < MaxCacheCalls
  /\ ncalls' = [ncalls EXCEPT ![k] = @ + 1]
  /\ computes' = computes + 1
  /\ computedAt' = [computedAt EXCEPT ![k] = now]
  /\ UNCHANGED <<now, exceptCache>>

\* time passes
Tick ==
  /\ now < MaxTime
  /\ now' = now + 1
  /\ UNCHANGED <<computedAt, ncalls, computes, exceptCache>>

KNext == Tick \/ \E k \in Keys : MaybeCached(k)

SpecCache == KInit /\ [][KNext]_vars

\* a result for key k computed less than the time-to-live ago
Fresh(k) == computedAt[k] >= 0 /\ now - computedAt[k] < CACHE_TTL_MS

\* the step is a call of maybeCached for key k
CallOf(k) == ncalls'[k] = ncalls[k] + 1

\* C14: a call of maybeCached with the tool name and arguments of a result
\* computed less than CACHE_TTL_MS ago returns it without invoking compute,
\* and a call with no such result invokes compute.
C14_CachedWithinTtl ==
  [][\A k \in Keys :
       CallOf(k) => IF Fresh(k) THEN computes' = computes ELSE computes' = computes + 1]_vars

(***************************************************************************)
(* resolveIlspycmd (ilspy.js), over a machine described by                 *)
(*   world.exists     the candidate paths that are files: "custom" (a path *)
(*                    given in ILSPY_CMD), "abs" (ilspycmd found on PATH), *)
(*                    "local" (./tools/ilspycmd)                           *)
(*   world.pathOk     `ilspycmd --version` runs                            *)
(*   world.dotnet     `dotnet --version` runs                              *)
(*   world.installOk  `dotnet tool install/update` leaves ./tools/ilspycmd *)
(* ilspyEnv is process.env.ILSPY_CMD, which persistIlspyEnv sets for later *)
(* calls.  tried lists the candidates the call has examined, each with     *)
(* whether it was available.                                               *)
(***************************************************************************)
Paths == {"custom", "abs", "local"}

Worlds ==
  [exists : SUBSET Paths, pathOk : BOOLEAN, dotnet : BOOLEAN, installOk : BOOLEAN]

\* the README's resolution order
Candidates == <<"env", "local", "path", "install">>

\* the first call of resolveIlspycmd begins
RInit ==
  /\ IlspyOnly
  /\ ilspyEnv \in {"unset"} \cup Paths
  /\ world \in Worlds
  /\ rstage = "env"
  /\ tried = <<>>
  /\ rvalue = "none"
  /\ installed = FALSE

Examined(cand, avail) == Append(tried, [cand |-> cand, avail |-> avail])

\* the step taken when ILSPY_CMD is unset or names no file: step 3, skipping
\* the project-local tool
AfterEnvSkipLocal == "path"

\* the step taken when ILSPY_CMD is unset or names no file
AfterEnv == "local"

\* 1) if (envPath && await exists(envPath)) return envPath
CheckEnv ==
  /\ rstage = "env"
  /\ LET avail == ilspyEnv # "unset" /\ ilspyEnv \in world.exists
     IN /\ tried' = Examined("env", avail)
        /\ IF avail THEN rvalue' = ilspyEnv /\ rstage' = "returned"
           ELSE rstage' = AfterEnv /\ UNCHANGED rvalue
  /\ UNCHANGED <<ilspyEnv, world, installed, exceptIlspy>>

\* 2) if (await exists(localBin)) return localBin
CheckLocal ==
  /\ rstage = "local"
  /\ LET avail == "local" \in world.exists
     IN /\ tried' = Examined("local", avail)
        /\ IF avail THEN rvalue' = "local" /\ rstage' = "returned"
           ELSE rstage' = "path" /\ UNCHANGED rvalue
  /\ UNCHANGED <<ilspyEnv, world, installed, exceptIlspy>>

\* 3) try { await execAsync('ilspycmd --version'); abs = await
\*    resolveBinAbsoluteFromPath(); if (abs) { await persistIlspyEnv(abs);
\*    return abs } return 'ilspycmd' } catch {}
CheckPath ==
  /\ rstage = "path"
  /\ tried' = Examined("path", world.pathOk)
  /\ IF world.pathOk
     THEN /\ rstage' = "returned"
          /\ IF "abs" \in world.exists
             THEN rvalue' = "abs" /\ ilspyEnv' = "abs"
             ELSE rvalue' = "ilspycmd" /\ UNCHANGED ilspyEnv
     ELSE rstage' = "dotnet" /\ UNCHANGED <<rvalue, ilspyEnv>>
  /\ UNCHANGED <<world, installed, exceptIlspy>>

\* 4) try { await execAsync('dotnet --version') } catch { throw ... }
CheckDotnet ==
  /\ rstage = "dotnet"
  /\ IF world.dotnet
     THEN rstage' = "install" /\ UNCHANGED tried
     ELSE rstage' = "thrown" /\ tried' = Examined("install", FALSE)
  /\ UNCHANGED <<ilspyEnv, world, rvalue, installed, exceptIlspy>>

\* 5) await fs.mkdir(toolsDir) fails: the call throws
MkdirFails ==
  /\ rstage = "install"
  /\ rstage' = "thrown"
  /\ tried' = Examined("install", FALSE)
  /\ UNCHANGED <<ilspyEnv, world, rvalue, installed, exceptIlspy>>

\* 5) dotnet tool install (or update) into ./tools; if (await
\*    exists(localBin)) { await persistIlspyEnv(localBin); return localBin }
\*    throw ...
Install ==
  /\ rstage = "install"
  /\ installed' = TRUE
  /\ world' = IF world.installOk
              THEN [world EXCEPT !.exists = @ \cup {"local"}] ELSE world
  /\ LET avail == "local" \in world'.exists
     IN /\ tried' = Examined("install", avail)
        /\ IF avail
           THEN rvalue' = "local" /\ ilspyEnv' = "local" /\ rstage' = "returned"
           ELSE rstage' = "thrown" /\ UNCHANGED <<rvalue, ilspyEnv>>
  /\ UNCHANGED exceptIlspy

\* a later call of resolveIlspycmd in the same process
ResolveAgain ==
  /\ rstage \in {"returned", "thrown"}
  /\ rstage' = "env"
  /\ tried' = <<>>
  /\ rvalue' = "none"
  /\ installed' = FALSE
  /\ UNCHANGED <<ilspyEnv, world, exceptIlspy>>

RNext ==
  \/ CheckEnv
  \/ CheckLocal
  \/ CheckPath
  \/ CheckDotnet
  \/ MkdirFails
  \/ Install
  \/ ResolveAgain

SpecResolve == RInit /\ [][RNext]_vars

\* the paths a candidate can give
PathsOf(cand) ==
  IF cand = "env" THEN Paths
  ELSE IF cand = "path" THEN {"abs", "ilspycmd"}
  ELSE {"local"}

\* C15: resolveIlspycmd examines the candidates in the order ILSPY_CMD,
\* ./tools/ilspycmd, ilspycmd on PATH, local install; it examines a candidate
\* (and installs) only when every earlier one was unavailable, returns a path
\* of the first available one, and throws, returning no path, when none is
\* available.
C15_ResolutionOrder ==
  /\ \A k \in 1 .. Len(tried) :
       /\ k <= Len(Candidates)
       /\ tried[k].cand = Candidates[k]
       /\ k < Len(tried) => ~tried[k].avail
  /\ installed => Len(tried) = Len(Candidates)
  /\ rstage = "returned" =>
       /\ tried # <<>>
       /\ tried[Len(tried)].avail
       /\ rvalue \in PathsOf(tried[Len(tried)].cand)
       /\ rvalue \in Paths => rvalue \in world.exists
  /\ rstage = "thrown" =>
       /\ Len(tried) = Len(Candidates)
       /\ ~tried[Len(tried)].avail
       /\ rvalue = "none"
  /\ rstage \notin {"returned", "thrown"} =>
       /\ rvalue = "none"
       /\ \A k \in 1 .. Len(tried) : ~tried[k].avail

\* a call that reached the local install and obtained the tool from it
C15_Witness ==
  /\ rstage = "returned"
  /\ installed
  /\ Len(tried) = 4
  /\ rvalue = "local"

(***************************************************************************)
(* The emitters of DecompilerService (index.js), run on what               *)
(* decompileAndSplit returns ({ usingLines, nsMap }):                      *)
(*   decompilePerNamespaceToDir, decompileSelectedNamespaces,              *)
(*   decompileSelectedNamespacesToDir, decompileToProjectStructure.        *)
(* disk is the output directory, a map from the path of a file below it    *)
(* to the file's content; it starts empty.  units lists, for every unit    *)
(* emitted, its namespace, the declaration line synthesized for it, the    *)
(* text emitted and the path written.                                      *)
(***************************************************************************)
\* the characters of the model's file names by UTF-16 code unit, the order
\* of Array.prototype.sort()
CodeOrder ==
  <<"(", ")", ".", "/", "0", "1", "2", "3", "4", "5", "6", "7", "8", "9",
    "A", "B", "C", "D", "E", "F", "G", "H", "I", "J", "K", "L", "M", "N",
    "O", "P", "Q", "R", "S", "T", "U", "V", "W", "X", "Y", "Z", "_",
    "a", "b", "c", "d", "e", "f", "g", "h", "i", "j", "k", "l", "m", "n",
    "o", "p", "q", "r", "s", "t", "u", "v", "w", "x", "y", "z">>

Code(c) == CHOOSE k \in 1 .. Len(CodeOrder) : CodeOrder[k] = c

RECURSIVE StrLess(_, _)
StrLess(a, b) ==
  IF b = <<>> THEN FALSE
  ELSE IF a = <<>> THEN TRUE
  ELSE IF Head(a) = Head(b) THEN StrLess(Tail(a), Tail(b))
  ELSE Code(Head(a)) < Code(Head(b))

RECURSIVE InsertSorted(_, _)
InsertSorted(x, xs) ==
  IF xs = <<>> THEN <<x>>
  ELSE IF StrLess(x, Head(xs)) THEN <<x>> \o xs
  ELSE <<Head(xs)>> \o InsertSorted(x, Tail(xs))

\* names.sort()
RECURSIVE Sort(_)
Sort(names) ==
  IF names = <<>> THEN <<>> ELSE InsertSorted(names[Len(names)], Sort(SubSeq(names, 1, Len(names) - 1)))

\* ns.replace(/\./g, c)
ReplaceDots(ns, c) == [k \in 1 .. Len(ns) |-> IF ns[k] = "." THEN c ELSE ns[k]]

DotCs == <<".", "c", "s">>

\* /;\s*$/.test(ns)
EndsWithSemi(ns) ==
  LET e == RunStart(ns, Len(ns), SpaceChars) IN e > 0 /\ ns[e] = ";"

\* const fileScoped = /;\s*$/.test(ns) ? ns : `namespace ${ns};`
FileScopedLine(ns) ==
  IF EndsWithSemi(ns) THEN ns ELSE KwNamespace \o <<" ">> \o ns \o <<";">>

\* `${usingLines}\n\n${fileScoped}\n\n${code}\n`
FinalCode(using, decl, code) == using \o NL \o NL \o decl \o NL \o NL \o code \o NL

\* ns === w || ns.startsWith(w + '.')
Selected(ns, ws) == \E w \in ws : ns = w \/ HasAt(ns, w \o <<".">>, 0)

\* const safeName = ns === '(global)' ? 'global' : ns.replace(/\./g, '_')
SafeNamePerNamespace(ns) ==
  IF ns = GLOBAL THEN <<"g", "l", "o", "b", "a", "l">> ELSE ReplaceDots(ns, "_")

\* const safeName = ns.replace(/\./g, '_')
SafeNameSelected(ns) == ReplaceDots(ns, "_")

\* one iteration of the loops over nsMap.entries()
UnitPerNamespace(e) ==
  [ns |-> e.key, path |-> SafeNamePerNamespace(e.key) \o DotCs,
   decl |-> FileScopedLine(e.key),
   content |-> FinalCode(usingLines, FileScopedLine(e.key), e.val)]

UnitSelected(e) ==
  [ns |-> e.key, path |-> SafeNameSelected(e.key) \o DotCs,
   decl |-> FileScopedLine(e.key),
   content |-> FinalCode(usingLines, FileScopedLine(e.key), e.val)]

\* await fs.writeFile(filePath, finalCode, 'utf8') for every unit, in order
RECURSIVE WriteAll(_, _)
WriteAll(d, us) ==
  IF us = <<>> THEN d ELSE WriteAll(MapSet(d, Head(us).path, Head(us).content), Tail(us))

PathsOfUnits(us) == [n \in 1 .. Len(us) |-> us[n].path]

ContentsOfUnits(us) == [n \in 1 .. Len(us) |-> us[n].content]

\* the namespaces argument of the selecting tools
WantNames == {<<"A">>, <<"A", ".", "B">>, GLOBAL}

Wants == (SUBSET WantNames) \ {{}}

\* decompilePerNamespaceToDir
EmitPerNamespace ==
  /\ pc = "done"
  /\ LET us == [n \in 1 .. Len(result) |-> UnitPerNamespace(result[n])]
     IN /\ units' = us
        /\ disk' = WriteAll(disk, us)
        /\ written' = Sort(PathsOfUnits(us))
  /\ method' = "decompilePerNamespaceToDir"
  /\ pc' = "emitted"
  /\ UNCHANGED <<want, merged>>
  /\ UNCHANGED <<text, lastIndex, tokens, i, cursor, result, regions, last,
                 headerBlock, usingLines, limVars, callVars, cacheVars, ilspyVars>>

\* decompileSelectedNamespaces
EmitSelected ==
  /\ pc = "done"
  /\ \E ws \in Wants :
       LET sel == SelectSeq(result, LAMBDA e : Selected(e.key, ws))
           us  == [n \in 1 .. Len(sel) |-> UnitSelected(sel[n])]
       IN /\ want' = ws
          /\ units' = us
          /\ merged' = JoinNL(ContentsOfUnits(us))
  /\ method' = "decompileSelectedNamespaces"
  /\ pc' = "emitted"
  /\ UNCHANGED <<disk, written>>
  /\ UNCHANGED <<text, lastIndex, tokens, i, cursor, result, regions, last,
                 headerBlock, usingLines, limVars, callVars, cacheVars, ilspyVars>>

\* decompileSelectedNamespacesToDir
EmitSelectedToDir ==
  /\ pc = "done"
  /\ \E ws \in Wants :
       LET sel == SelectSeq(result, LAMBDA e : Selected(e.key, ws))
           us  == [n \in 1 .. Len(sel) |-> UnitSelected(sel[n])]
       IN /\ want' = ws
          /\ units' = us
          /\ disk' = WriteAll(disk, us)
          /\ written' = Sort(PathsOfUnits(us))
  /\ method' = "decompileSelectedNamespacesToDir"
  /\ pc' = "emitted"
  /\ UNCHANGED merged
  /\ UNCHANGED <<text, lastIndex, tokens, i, cursor, result, regions, last,
                 headerBlock, usingLines, limVars, callVars, cacheVars, ilspyVars>>

\* _splitTypes(code) as a function: the loop of TypeSemi and TypeBrace from
\* offset from on, with the map built so far
RECURSIVE SplitTypesFrom(_, _, _)
\* nextIdx: past the next semicolon when there is no brace after start, else
\* past the brace that closes the first one
TypeNextIdx(code, start, braceStart) ==
  IF braceStart = -1 THEN SemiNextIdx(code, start) ELSE BraceScan(code, braceStart, 0)

\* types.set(m[3], code.slice(start, nextIdx).trim()) and the next exec
SplitTypesCut(code, m, start, nextIdx, acc) ==
  SplitTypesFrom(code, TypeResume(m, nextIdx),
                 MapSet(acc, m.name, Trim(Slice(code, start, nextIdx))))

\* the body of the while loop for the match m, whose declaration is at start
SplitTypesMatch(code, m, start, acc) ==
  IF ~m.ok THEN acc
  ELSE SplitTypesCut(code, m, start, TypeNextIdx(code, start, IndexOf(code, "{", start)), acc)

\* const start = match.index + (match[1] ? match[1].length : 0)
SplitTypesExec(code, m, acc) == SplitTypesMatch(code, m, TypeStart(m), acc)

SplitTypesFrom(code, from, acc) == SplitTypesExec(code, TypeExec(code, from), acc)

SplitTypes(code) == SplitTypesFrom(code, 0, <<>>)

\* path.relative(outputDir, nsPath): 'global', or the segments of
\* ns.split('.') (none of them empty in the names of the model)
NsDir(ns) ==
  IF ns = GLOBAL THEN <<"g", "l", "o", "b", "a", "l">> ELSE ReplaceDots(ns, "/")

\* the line of nsHeader = ns === '(global)' ? '' : `namespace ${ns};\n\n`
NsHeaderLine(ns) == IF ns = GLOBAL THEN <<>> ELSE KwNamespace \o <<" ">> \o ns \o <<";">>

\* `${usingLines}\n\n${nsHeader}${code}\n`
ProjectCode(using, ns, code) ==
  using \o NL \o NL
        \o (IF ns = GLOBAL THEN <<>> ELSE NsHeaderLine(ns) \o NL \o NL) \o code \o NL

GlobalCs == <<"G", "l", "o", "b", "a", "l", ".", "c", "s">>

NamespaceCs == <<"N", "a", "m", "e", "s", "p", "a", "c", "e", ".", "c", "s">>

\* the files of one namespace: one per type, or the whole unit when
\* _splitTypes finds no type
UnitsOfNamespace(e) ==
  LET types == SplitTypes(e.val)
  IN IF types = <<>>
     THEN <<[ns |-> e.key,
             path |-> NsDir(e.key) \o <<"/">> \o (IF e.key = GLOBAL THEN GlobalCs ELSE NamespaceCs),
             decl |-> NsHeaderLine(e.key),
             content |-> ProjectCode(usingLines, e.key, e.val)]>>
     ELSE [n \in 1 .. Len(types) |->
             [ns |-> e.key,
              path |-> NsDir(e.key) \o <<"/">> \o types[n].key \o DotCs,
              decl |-> NsHeaderLine(e.key),
              content |-> ProjectCode(usingLines, e.key, types[n].val)]]

RECURSIVE ProjectUnits(_)
ProjectUnits(entries) ==
  IF entries = <<>> THEN <<>>
  ELSE UnitsOfNamespace(Head(entries)) \o ProjectUnits(Tail(entries))

\* _writeFileIfChanged(filePath, content, written, outputDir) on the pair of
\* the directory and the written list
WriteFileIfChanged(s, path, content) ==
  IF MapHas(s.disk, path) /\ MapGet(s.disk, path) = content THEN s
  ELSE [disk |-> MapSet(s.disk, path, content), written |-> Append(s.written, path)]

RECURSIVE WriteChanged(_, _)
WriteChanged(s, us) ==
  IF us = <<>> THEN s
  ELSE WriteChanged(WriteFileIfChanged(s, Head(us).path, Head(us).content), Tail(us))

\* the files that are no unit; their contents are not looked into
CsprojFile ==
  [path |-> <<"D", "e", "c", "o", "m", "p", "i", "l", "e", "d", ".",
              "c", "s", "p", "r", "o", "j">>,
   content |-> <<"csproj">>]

DocsFile ==
  [path |-> <<"D", "o", "c", "s", "/", "a", ".", "x", "m", "l">>, content |-> <<"xml">>]

ManifestFile ==
  [path |-> <<"D", "e", "c", "o", "m", "p", "i", "l", "e", "d", ".",
              "m", "a", "n", "i", "f", "e", "s", "t", ".", "j", "s", "o", "n">>,
   content |-> <<"manifest">>]

\* decompileToProjectStructure: the csproj, the files of every namespace, the
\* XML documentation when asked for and present, the manifest when the
\* assembly can be stat'ed
EmitProject ==
  /\ pc = "done"
  /\ \E docs \in BOOLEAN, statOk \in BOOLEAN :
       LET us == ProjectUnits(result)
           s0 == [disk |-> disk, written |-> <<>>]
           s1 == WriteFileIfChanged(s0, CsprojFile.path, CsprojFile.content)
           s2 == WriteChanged(s1, us)
           s3 == IF docs THEN WriteFileIfChanged(s2, DocsFile.path, DocsFile.content) ELSE s2
           s4 == IF statOk THEN WriteFileIfChanged(s3, ManifestFile.path, ManifestFile.content)
                 ELSE s3
       IN /\ units' = us
          /\ disk' = s4.disk
          /\ written' = Sort(s4.written)
  /\ method' = "decompileToProjectStructure"
  /\ pc' = "emitted"
  /\ UNCHANGED <<want, merged>>
  /\ UNCHANGED <<text, lastIndex, tokens, i, cursor, result, regions, last,
                 headerBlock, usingLines, limVars, callVars, cacheVars, ilspyVars>>

MaxEmitPieces == 3

EmitPieces ==
  { <<"u", "s", "i", "n", "g", " ", "S", ";", "\n">>,
    <<"n", "a", "m", "e", "s", "p", "a", "c", "e", " ", "A", ".", "B", ";">>,
    <<"n", "a", "m", "e", "s", "p", "a", "c", "e", " ", "A", "_", "B", " ",
      "{", " ", "x", " ", "}">>,
    <<"n", "a", "m", "e", "s", "p", "a", "c", "e", " ", "A", " ", "{", " ",
      "c", "l", "a", "s", "s", " ", "C", "{", "}", " ", "}">>,
    <<"c", "l", "a", "s", "s", " ", "C", "{", "}">>,
    <<"x">> }

EmitTexts == Concats(EmitPieces, MaxEmitPieces)

\* decompileAndSplit has read the decompiler's output into combined
EInit ==
  /\ text \in EmitTexts
  /\ pc = "header"
  /\ lastIndex = 0
  /\ tokens = <<>>
  /\ i = 0
  /\ cursor = 0
  /\ result = <<>>
  /\ regions = <<>>
  /\ last = NoLast
  /\ headerBlock = <<>>
  /\ usingLines = <<>>
  /\ LimIdle /\ CallIdle /\ CacheIdle /\ IlspyIdle
  /\ method = "none"
  /\ want = {}
  /\ disk = <<>>
  /\ written = <<>>
  /\ merged = <<>>
  /\ units = <<>>

\* const nsMap = splitByNamespace(combined)
StartSplit ==
  /\ pc = "headerDone"
  /\ pc' = "tokenize"
  /\ UNCHANGED <<text, lastIndex, tokens, i, cursor, result, regions, last,
                 headerBlock, usingLines, envVars>>

ENext ==
  \/ HNext
  \/ StartSplit
  \/ Next
  \/ EmitPerNamespace
  \/ EmitSelected
  \/ EmitSelectedToDir
  \/ EmitProject

SpecEmit == EInit /\ [][ENext]_vars

(***************************************************************************)
(* The emitters' properties.                                               *)
(***************************************************************************)
\* the forms in which the source declares namespace ns
DeclaredKinds(ns) == {tokens[n].kind : n \in {k \in 1 .. Len(tokens) : tokens[k].name = ns}}

FileScopedForm(ns) == KwNamespace \o <<" ">> \o ns \o <<";">>

\* a line `namespace ns {`
IsBlockForm(decl, ns) ==
  /\ HasAt(decl, KwNamespace \o <<" ">> \o ns, 0)
  /\ Trim(SliceFrom(decl, Len(KwNamespace) + 1 + Len(ns))) = <<"{">>

\* C16: every emitted unit starts with the extracted header directives and
\* carries a synthesized namespace declaration line of the form its namespace
\* was declared in: block form for a block-declared namespace, file-scoped
\* form for a file-scoped one, no declaration line for (global).
C16_DeclarationKeepsForm ==
  pc = "emitted" =>
    \A n \in 1 .. Len(units) :
      /\ HasAt(units[n].content, usingLines, 0)
      /\ units[n].ns = GLOBAL => units[n].decl = <<>>
      /\ DeclaredKinds(units[n].ns) = {"file"} => units[n].decl = FileScopedForm(units[n].ns)
      /\ DeclaredKinds(units[n].ns) = {"block"} => IsBlockForm(units[n].decl, units[n].ns)

ToDirMethods == {"decompilePerNamespaceToDir", "decompileSelectedNamespacesToDir"}

\* C17: the per-namespace writers put distinct units in distinct files: after
\* the call the directory holds as many files as there are units, each with
\* the text of its own unit.
C17_OneFilePerUnit ==
  (pc = "emitted" /\ method \in ToDirMethods) =>
    /\ Len(disk) = Len(units)
    /\ \A m, n \in 1 .. Len(units) : m # n => units[m].path # units[n].path
    /\ \A n \in 1 .. Len(units) :
         MapHas(disk, units[n].path) /\ MapGet(disk, units[n].path) = units[n].content

(***************************************************************************)
(* The temporary directory of a tool call.                                 *)
(***************************************************************************)
Settled == stage = "settled"

\* C18: when a tool call settles, on success and on every failure, the
\* temporary directory it created (if it got to create one) has had its
\* removal attempted, and the call settles with the result or error its try
\* block left, whether the removal succeeded or failed.
C18_TempDirCleaned ==
  /\ [](Settled => (tempDir # "exists" /\ outcome # "none"))
  /\ [][stage = "finally" => (outcome' = outcome /\ tempDir' # "exists")]_vars

\* a call that failed on the size limit, and whose cleanup failed as well
C18_Witness ==
  /\ Settled
  /\ tempDir = "removeFailed"
  /\ outcome = "tooManyBytes"

(***************************************************************************)
(* The decompiler processes of the tool calls in flight.  The tools built  *)
(* on decompileAndSplit launch ilspycmd with runExec, i.e. inside          *)
(* withConcurrencyLimit (Enter, Resume, Settle above, fn being the         *)
(* process); decompileDotnetAssembly and decompileDotnetAssemblyToDir      *)
(* launch it with `await execPromise(cmd)`.                                *)
(***************************************************************************)
\* await execPromise(cmd): the process starts
LaunchDirect(c) ==
  /\ call[c] = "idle"
  /\ call' = [call EXCEPT ![c] = "direct"]
  /\ UNCHANGED <<max, active, queue, exceptLim>>

\* the process started by execPromise exits
ExitDirect(c) ==
  /\ call[c] = "direct"
  /\ \E how \in {"resolved", "rejected"} : call' = [call EXCEPT ![c] = how]
  /\ UNCHANGED <<max, active, queue, exceptLim>>

SNext ==
  \/ LNext
  \/ \E c \in Calls : LaunchDirect(c) \/ ExitDirect(c)

SpecServer == LInit /\ [][SNext]_vars

\* the calls whose decompiler process is running
Processes == {c \in Calls : call[c] \in {"running", "direct"}}

\* C19: every decompiler process is launched through the shared limiter, and
\* at most MAX_CONCURRENCY (max) of them run at the same time over all tool
\* calls in flight.
C19_ProcessesWithinLimit ==
  /\ \A c \in Calls : call[c] # "direct"
  /\ Cardinality(Processes) <= max

(***************************************************************************)
(* The limiter under fair scheduling.  A continuation whose promise was    *)
(* resolved is a queued microtask and runs (Resume); that every fn         *)
(* settles is the hypothesis of the property (Settle).  Nothing obliges a  *)
(* caller to make a call (Enter).                                          *)
(***************************************************************************)
SpecLimiterFair ==
  /\ LInit
  /\ [][LNext]_vars
  /\ \A c \in Calls : WF_vars(Resume(c)) /\ WF_vars(Settle(c))

\* a step in which the fn of call c settles
Settles(c) == call[c] = "running" /\ call'[c] \in {"resolved", "rejected"}

\* C20: with max >= 1 and every fn settling, a call that waits in the queue
\* starts its fn; whenever an fn settles, by resolving or by rejecting, the
\* slot is released and the first queued waiter is woken; no waiter is queued
\* while no fn is running and no woken waiter is about to run.
C20_EveryCallStarts ==
  /\ \A c \in Calls : (call[c] = "waiting") ~> (call[c] = "running")
  /\ [][\A c \in Calls : Settles(c) =>
          /\ active' = active - 1
          /\ queue # <<>> => /\ call'[Head(queue)] = "woken"
                             /\ queue' = Tail(queue)]_vars
  /\ [](queue # <<>> => \E c \in Calls : call[c] \in {"running", "woken"})

\* a waiter woken by the rejection of the only fn that ran
C20_Witness ==
  \E c, d \in Calls :
    /\ call[c] = "woken"
    /\ call[d] = "rejected"
    /\ \A e \in Calls \ {c, d} : call[e] = "idle"

(***************************************************************************)
(* splitByNamespace on texts whose block declarations are all closed:      *)
(* complete namespaces and the text between and around them.               *)
(***************************************************************************)
MaxGapPieces == 3

GapPieces ==
  { KwNamespace \o <<" ", "A", " ", "{", " ", "x", " ", "}">>,
    KwNamespace \o <<" ", "B", " ", "{", " ", "z", " ", "}">>,
    KwNamespace \o <<" ", "C", ";">>,
    <<" ", "y", " ">>,
    <<"\n">> }

GapTexts == Concats(GapPieces, MaxGapPieces)

\* splitByNamespace(text) is called
GInit ==
  /\ text \in GapTexts
  /\ pc = "tokenize"
  /\ lastIndex = 0
  /\ tokens = <<>>
  /\ i = 0
  /\ cursor = 0
  /\ result = <<>>
  /\ regions = <<>>
  /\ last = NoLast
  /\ headerBlock = <<>>
  /\ usingLines = <<>>
  /\ EnvIdle

SpecGaps == GInit /\ [][Next]_vars

\* offset k is inside the match of a declaration (the keyword through its ';'
\* or '{') or is the brace that closes a block declaration
InHeader(k) ==
  \E n \in 1 .. Len(tokens) :
    \/ tokens[n].index <= k /\ k < TokEnd(n)
    \/ tokens[n].kind = "block" /\ k = CloseOf(text, TokBrace(n))

\* the character c is in the body of some unit of the result
InSomeBody(c) ==
  \E n \in 1 .. Len(result) : \E p \in 1 .. Len(result[n].val) : result[n].val[p] = c

\* C21: when the text has at least one namespace declaration, every character
\* that is not whitespace and lies outside the declaration headers and their
\* delimiting braces (the text between the end of a block namespace and the
\* next declaration included) is in the body of some unit of the result.
C21_NoTextDropped ==
  Finished =>
    \A k \in 0 .. (Len(text) - 1) :
      (~IsSpace(text[k + 1]) /\ ~InHeader(k)) => InSomeBody(text[k + 1])

====
